---- MODULE Spec2Model ----
(***************************************************************************)
(* pngyou: the chunk-type classifier (chunk_type.rs), the chunk codec      *)
(* (chunk.rs) and the Png container that owns an ordered chunk sequence.   *)
(*                                                                         *)
(* Bytes are naturals in 0..255.  A u32 is kept as a pair <<hi, lo>> of    *)
(* 16-bit halves (value hi * 65536 + lo), so that the whole 32-bit range   *)
(* is representable; a [u8; 4] is a 4-tuple of bytes, most significant     *)
(* first.                                                                  *)
(***************************************************************************)
EXTENDS Naturals, Sequences, FiniteSets

VARIABLES
    ctOp, ctStr, ctRaw, ctRes, ctFlags,           \* ChunkType constructors and queries
    ckOp, ckType, ckData, made, orig, buf, ckRes, \* Chunk codec
    chunks, pngOp, pngArg, given, prev, found, pngOut, pngErr, \* Png container
    cliArgs, cliPc, fs, fs0, net, parsed_input, png, writes, printed,
    failedAt                                      \* the encode and remove commands

ctVars  == <<ctOp, ctStr, ctRaw, ctRes, ctFlags>>
ckVars  == <<ckOp, ckType, ckData, made, orig, buf, ckRes>>
pngVars == <<chunks, pngOp, pngArg, given, prev, found, pngOut, pngErr>>
cliVars == <<cliArgs, cliPc, fs, fs0, net, parsed_input, png, writes, printed,
             failedAt>>
vars    == <<ctVars, ckVars, pngVars, cliVars>>

----------------------------------------------------------------------------
(* Bounds of the model. *)

\* longest text handed to ChunkType::from_str, in characters
MaxChars == 4
\* longest chunk payload built from the sample data bytes
MaxData == 2
\* longest chunk sequence held by a container
MaxChunks == 3

----------------------------------------------------------------------------
(* Bytes, big-endian words and bit operations. *)

Byte == 0..255

RECURSIVE BitXor(_, _)
BitXor(a, b) ==
    IF a = 0 THEN b
    ELSE IF b = 0 THEN a
    ELSE (((a % 2) + (b % 2)) % 2) + 2 * BitXor(a \div 2, b \div 2)

RECURSIVE BitAnd(_, _)
BitAnd(a, b) ==
    IF a = 0 \/ b = 0 THEN 0
    ELSE (a % 2) * (b % 2) + 2 * BitAnd(a \div 2, b \div 2)

RECURSIVE Pow2(_)
Pow2(n) == IF n = 0 THEN 1 ELSE 2 * Pow2(n - 1)

\* u32 <-> usize for the sizes a buffer can have
U32OfNat(n) == <<n \div 65536, n % 65536>>

\* u32::from_be_bytes
from_be_bytes(b) == <<b[1] * 256 + b[2], b[3] * 256 + b[4]>>

\* u32::to_be_bytes
to_be_bytes(w) == <<w[1] \div 256, w[1] % 256, w[2] \div 256, w[2] % 256>>

Xor32(x, y) == <<BitXor(x[1], y[1]), BitXor(x[2], y[2])>>

Shr32(x, n) ==
    <<x[1] \div Pow2(n), (x[1] % Pow2(n)) * Pow2(16 - n) + x[2] \div Pow2(n)>>

RECURSIVE Reflect(_, _)
\* the low n bits of x in reverse order
Reflect(x, n) ==
    IF n = 0 THEN 0 ELSE (x % 2) * Pow2(n - 1) + Reflect(x \div 2, n - 1)

Reflect32(x) == <<Reflect(x[2], 16), Reflect(x[1], 16)>>

----------------------------------------------------------------------------
(* CRC-32/ISO-HDLC: poly 0x04C11DB7, init 0xFFFFFFFF, refin, refout,       *)
(* xorout 0xFFFFFFFF.                                                      *)

CrcPoly   == <<1217, 7607>>       \* 0x04C1 1DB7
CrcInit   == <<65535, 65535>>
CrcXorOut == <<65535, 65535>>

RECURSIVE CrcShift(_, _)
\* n steps of the reflected shift register
CrcShift(x, n) ==
    IF n = 0 THEN x
    ELSE CrcShift(IF x[2] % 2 = 1 THEN Xor32(Shr32(x, 1), Reflect32(CrcPoly))
                                  ELSE Shr32(x, 1),
                  n - 1)

CrcTable == [i \in Byte |-> CrcShift(<<0, i>>, 8)]

CrcUpdate(x, b) == Xor32(Shr32(x, 8), CrcTable[BitXor(x[2] % 256, b)])

RECURSIVE CrcFeed(_, _, _)
\* the register after bytes i.. of s; it stays within 32 bits
CrcFeed(x, s, i) ==
    IF i > Len(s) THEN x
    ELSE LET y == CrcUpdate(x, s[i])
         IN  IF y[1] < 65536 /\ y[2] < 65536 THEN CrcFeed(y, s, i + 1) ELSE x

\* Crc::<u32>::new(&CRC_32_ISO_HDLC).checksum(s)
checksum(s) == Xor32(CrcFeed(CrcInit, s, 1), CrcXorOut)

----------------------------------------------------------------------------
(* Results. *)

Ok(v)  == [ok |-> TRUE, err |-> "", val |-> v]
Err(e) == [ok |-> FALSE, err |-> e, val |-> <<>>]
None   == [ok |-> FALSE, err |-> "none", val |-> <<>>]

----------------------------------------------------------------------------
(* chunk_type.rs *)

ErrTypeLength == "Invalid length of byte."
ErrTypeAlpha  == "Not a valid utf-8 string."

is_ascii_uppercase(b)  == b \in 65..90
is_ascii_lowercase(b)  == b \in 97..122
is_ascii_alphabetic(b) == is_ascii_uppercase(b) \/ is_ascii_lowercase(b)

\* impl TryFrom<[u8; 4]> for ChunkType: the bytes copied one by one, no check
ChunkType_try_from(b) == Ok([bytes |-> [i \in 1..4 |-> b[i]]])

\* variant: from_str without the alphabetic test
from_str_unchecked(s) ==
    IF Len(s) # 4 THEN Err(ErrTypeLength)
    ELSE Ok([bytes |-> [i \in 1..4 |-> s[i]]])

\* impl FromStr for ChunkType; s is the text's UTF-8 bytes, s.len() their count
ChunkType_from_str(s) ==
    IF Len(s) # 4 THEN Err(ErrTypeLength)
    ELSE IF ~ \A i \in 1..Len(s) : is_ascii_alphabetic(s[i]) THEN Err(ErrTypeAlpha)
    ELSE Ok([bytes |-> [i \in 1..4 |-> s[i]]])

bytes(t) == t.bytes

is_reserved_bit_valid(t) == BitAnd(t.bytes[3], 32) = 0

is_valid(t) ==
    (\A i \in 1..4 : is_ascii_alphabetic(t.bytes[i])) /\ is_reserved_bit_valid(t)

is_critical(t) == is_ascii_uppercase(t.bytes[1])

is_public(t) == is_ascii_uppercase(t.bytes[2])

is_safe_to_copy(t) == is_ascii_lowercase(t.bytes[4])

\* variant: equality that ignores the case bit of each byte
eq_ignore_case(a, b) ==
    \A i \in 1..4 : BitAnd(a.bytes[i], 223) = BitAnd(b.bytes[i], 223)

\* #[derive(PartialEq)] on ChunkType: the four bytes compared
ChunkType_eq(a, b) == \A i \in 1..4 : a.bytes[i] = b.bytes[i]

----------------------------------------------------------------------------
(* chunk.rs *)

ErrChunkSize == "Invalid chunk. Minimum chunk size must be of 12 bytes."
ErrLength    == "Mismatched length: header says {}, but found {} bytes"
ErrCrc       == "CRC mismatched!"

\* the smallest chunk: 4 length + 4 type + 4 CRC bytes
MinChunkSize == 12

\* variant: Chunk::new with the CRC taken over the data alone
new_crc_over_data(t, d) ==
    [length     |-> to_be_bytes(U32OfNat(Len(d))),
     chunk_type |-> t,
     data       |-> d,
     crc        |-> to_be_bytes(checksum(d))]

\* Chunk::new; data longer than u32::MAX panics and is outside the bounds
Chunk_new(t, d) ==
    [length     |-> to_be_bytes(U32OfNat(Len(d))),
     chunk_type |-> t,
     data       |-> d,
     crc        |-> to_be_bytes(checksum(bytes(t) \o d))]

\* variants: the decoder with one line changed: whether the CRC is compared, how the
\* declared length is compared, how the type is built
TryFromWith(b, crc_compared, whole_length, checked_type) ==
    IF Len(b) < MinChunkSize THEN Err(ErrChunkSize)
    ELSE LET length           == SubSeq(b, 1, 4)
             chunk_type_bytes == SubSeq(b, 5, 8)
             d                == SubSeq(b, 9, Len(b) - 4)
             expected_length  == from_be_bytes(length)
             crc_expected     == to_be_bytes(checksum(chunk_type_bytes \o d))
             c                == SubSeq(b, Len(b) - 3, Len(b))
             chunk_type       == IF checked_type
                                 THEN ChunkType_from_str(chunk_type_bytes)
                                 ELSE ChunkType_try_from(chunk_type_bytes)
             same_length      == IF whole_length
                                 THEN U32OfNat(Len(d)) = expected_length
                                 ELSE Len(d) % 256 = expected_length[2] % 256
         IN  IF ~ same_length THEN Err(ErrLength)
             ELSE IF crc_compared /\ c # crc_expected THEN Err(ErrCrc)
             ELSE IF ~ chunk_type.ok THEN chunk_type
             ELSE Ok([length     |-> length,
                      chunk_type |-> chunk_type.val,
                      data       |-> d,
                      crc        |-> c])

try_from_crc_not_compared(b) == TryFromWith(b, FALSE, TRUE, FALSE)

try_from_length_low_byte(b) == TryFromWith(b, TRUE, FALSE, FALSE)

try_from_validating_type(b) == TryFromWith(b, TRUE, TRUE, TRUE)

\* impl TryFrom<&[u8]> for Chunk.  The declared length is widened to usize
\* and compared with data.len(); both are below 2^32 here, so the comparison
\* is made on the u32 pairs.
Chunk_try_from(b) ==
    IF Len(b) < MinChunkSize THEN Err(ErrChunkSize)
    ELSE LET length           == SubSeq(b, 1, 4)
             chunk_type_bytes == SubSeq(b, 5, 8)
             d                == SubSeq(b, 9, Len(b) - 4)
             expected_length  == from_be_bytes(length)
             crc_expected     == to_be_bytes(checksum(chunk_type_bytes \o d))
             c                == SubSeq(b, Len(b) - 3, Len(b))
             chunk_type       == ChunkType_try_from(chunk_type_bytes)
         IN  IF U32OfNat(Len(d)) # expected_length THEN Err(ErrLength)
             ELSE IF c # crc_expected THEN Err(ErrCrc)
             ELSE IF ~ chunk_type.ok THEN chunk_type
             ELSE Ok([length     |-> length,
                      chunk_type |-> chunk_type.val,
                      data       |-> d,
                      crc        |-> c])

\* Chunk::length
length(c) == from_be_bytes(c.length)

\* Chunk::chunk_type
chunk_type(c) == c.chunk_type

\* Chunk::data
data(c) == c.data

\* Chunk::crc
crc(c) == from_be_bytes(c.crc)

\* variant: as_bytes without the length field
as_bytes_without_length(c) == bytes(c.chunk_type) \o c.data \o c.crc

\* Chunk::as_bytes
Chunk_as_bytes(c) == c.length \o bytes(c.chunk_type) \o c.data \o c.crc

----------------------------------------------------------------------------
(* png.rs: the container, an ordered chunk sequence behind the signature *)

ErrSignature == "BadSignature"
ErrNotFound  == "ChunkNotFound"

\* Png::STANDARD_HEADER
Signature == <<137, 80, 78, 71, 13, 10, 26, 10>>

RECURSIVE ConcatBytes(_)
ConcatBytes(cs) ==
    IF cs = <<>> THEN <<>> ELSE Chunk_as_bytes(Head(cs)) \o ConcatBytes(Tail(cs))

\* Png::as_bytes
Png_as_bytes(cs) == Signature \o ConcatBytes(cs)

RECURSIVE DecodeChunks(_, _)
\* each chunk takes 12 + declared length bytes of what remains; a declared
\* length reaching past the end leaves the chunk decoder the whole remainder
DecodeChunks(rest, acc) ==
    IF rest = <<>> THEN Ok(acc)
    ELSE IF Len(rest) < MinChunkSize THEN Chunk_try_from(rest)
    ELSE LET declared == from_be_bytes(SubSeq(rest, 1, 4))
             fits     == declared[1] = 0 /\ MinChunkSize + declared[2] <= Len(rest)
             take     == IF fits THEN MinChunkSize + declared[2] ELSE Len(rest)
             r        == Chunk_try_from(SubSeq(rest, 1, take))
         IN  IF ~ r.ok THEN r
             ELSE DecodeChunks(SubSeq(rest, take + 1, Len(rest)), Append(acc, r.val))

\* impl TryFrom<&[u8]> for Png
Png_try_from(b) ==
    IF Len(b) < Len(Signature) \/ SubSeq(b, 1, Len(Signature)) # Signature
    THEN Err(ErrSignature)
    ELSE DecodeChunks(SubSeq(b, Len(Signature) + 1, Len(b)), <<>>)

\* Png::append_chunk
append_chunk(cs, c) == Append(cs, c)

RECURSIVE first_index(_, _, _)
\* the smallest index from i on whose chunk has type t, 0 when there is none
first_index(cs, t, i) ==
    IF i > Len(cs) THEN 0
    ELSE IF ChunkType_eq(chunk_type(cs[i]), t) THEN i
    ELSE first_index(cs, t, i + 1)

\* Png::remove_first_chunk
remove_first_chunk(cs, t) ==
    LET i == first_index(cs, t, 1)
    IN  IF i = 0 THEN Err(ErrNotFound)
        ELSE Ok(SubSeq(cs, 1, i - 1) \o SubSeq(cs, i + 1, Len(cs)))

RECURSIVE chunks_by_type(_, _)
\* Png::chunks_by_type
chunks_by_type(cs, t) ==
    IF cs = <<>> THEN <<>>
    ELSE IF ChunkType_eq(chunk_type(Head(cs)), t)
         THEN <<Head(cs)>> \o chunks_by_type(Tail(cs), t)
         ELSE chunks_by_type(Tail(cs), t)

----------------------------------------------------------------------------
(* Inputs. *)

SeqsUpTo(S, n) == UNION {[1..k -> S] : k \in 0..n}

RECURSIVE Flatten(_)
Flatten(ss) == IF ss = <<>> THEN <<>> ELSE Head(ss) \o Flatten(Tail(ss))

\* characters of a text, each as its UTF-8 bytes: R u S s t 1 and e-acute
TextChars == {<<82>>, <<117>>, <<83>>, <<115>>, <<116>>, <<49>>, <<195, 169>>}

Texts == {Flatten(cs) : cs \in SeqsUpTo(TextChars, MaxChars)}

\* bytes of a raw type: NUL, space, '@', 'R', '[', 'u', '{', 0xFF
RawBytes == {0, 32, 64, 82, 91, 117, 123, 255}

RawTypes == [1..4 -> RawBytes]

T_RuSt == [bytes |-> <<82, 117, 83, 116>>]
T_ruSt == [bytes |-> <<114, 117, 83, 116>>]
T_IHDR == [bytes |-> <<73, 72, 68, 82>>]
T_IEND == [bytes |-> <<73, 69, 78, 68>>]
\* non-letters, and the reserved bit set in the third byte
T_raw  == [bytes |-> <<0, 255, 49, 123>>]

\* "This is where your secret message will be!"
SecretMessage ==
    <<84, 104, 105, 115, 32, 105, 115, 32, 119, 104, 101, 114, 101, 32, 121,
      111, 117, 114, 32, 115, 101, 99, 114, 101, 116, 32, 109, 101, 115, 115,
      97, 103, 101, 32, 119, 105, 108, 108, 32, 98, 101, 33>>

DataBytes == {0, 84}

Datas == SeqsUpTo(DataBytes, MaxData)

ChunkTypes == {T_RuSt, T_IHDR, T_raw}

\* every sample type with every short payload, and the test's "RuSt" chunk
ChunkInputs == (ChunkTypes \X Datas) \cup {<<T_RuSt, SecretMessage>>}

\* declared lengths put in place of the true one
LengthFields ==
    {<<h, 0, 0, n>> : h \in {0, 1, 128}, n \in 0..(MaxData + 2)}
        \cup {<<0, 0, 1, 0>>, <<0, 1, 0, 0>>, <<255, 255, 255, 255>>}

\* stored CRCs put in place of the true one; 2882656333 is the test's bad CRC
CrcFields == {<<0, 0, 0, 0>>, <<171, 209, 216, 77>>, <<255, 255, 255, 255>>}

----------------------------------------------------------------------------
(* State before any call. *)

NoFlags == [asked |-> FALSE, valid |-> FALSE, critical |-> FALSE,
            public |-> FALSE, reserved_bit_valid |-> FALSE,
            safe_to_copy |-> FALSE]

NoType == [bytes |-> <<>>]

ctIdle ==
    /\ ctOp = "idle"
    /\ ctStr = <<>>
    /\ ctRaw = <<>>
    /\ ctRes = None
    /\ ctFlags = NoFlags

ckIdle ==
    /\ ckOp = "idle"
    /\ ckType = NoType
    /\ ckData = <<>>
    /\ made = <<>>
    /\ orig = <<>>
    /\ buf = <<>>
    /\ ckRes = None

pngIdle ==
    /\ chunks = <<>>
    /\ pngOp = "idle"
    /\ pngArg = NoType
    /\ given = <<>>
    /\ prev = <<>>
    /\ found = <<>>
    /\ pngOut = <<>>
    /\ pngErr = ""

\* a file, or the body of a response: absent, or its bytes
NoFile == [exists |-> FALSE, bytes |-> <<>>]

File(b) == [exists |-> TRUE, bytes |-> b]

P_in  == "in.png"
P_out == "out.png"

Paths == {P_in, P_out}

NoArgs == [cmd |-> "none", input |-> "none", output |-> "none",
           chunk_type |-> NoType, message |-> <<>>]

cliIdle ==
    /\ cliArgs = NoArgs
    /\ cliPc = "idle"
    /\ fs = [p \in Paths |-> NoFile]
    /\ fs0 = [p \in Paths |-> NoFile]
    /\ net = NoFile
    /\ parsed_input = <<>>
    /\ png = <<>>
    /\ writes = 0
    /\ printed = FALSE
    /\ failedAt = ""

Init == ctIdle /\ ckIdle /\ pngIdle /\ cliIdle

----------------------------------------------------------------------------
(* ChunkType: the two constructors and the property queries. *)

ChunkTypeInit ==
    /\ ckIdle
    /\ pngIdle
    /\ cliIdle
    /\ ctOp = "input"
    /\ ctRes = None
    /\ ctFlags = NoFlags
    /\ \/ ctStr \in Texts /\ ctRaw = <<>>
       \/ ctStr = <<>> /\ ctRaw \in RawTypes

FromStr ==
    /\ ctOp = "input"
    /\ ctRaw = <<>>
    /\ ctOp' = "from_str"
    /\ ctRes' = ChunkType_from_str(ctStr)
    /\ UNCHANGED <<ctStr, ctRaw, ctFlags, ckVars, pngVars, cliVars>>

TryFromRaw ==
    /\ ctOp = "input"
    /\ ctRaw # <<>>
    /\ ctOp' = "try_from"
    /\ ctRes' = ChunkType_try_from(ctRaw)
    /\ UNCHANGED <<ctStr, ctRaw, ctFlags, ckVars, pngVars, cliVars>>

Query ==
    /\ ctRes.ok
    /\ ~ ctFlags.asked
    /\ ctFlags' = [asked              |-> TRUE,
                   valid              |-> is_valid(ctRes.val),
                   critical           |-> is_critical(ctRes.val),
                   public             |-> is_public(ctRes.val),
                   reserved_bit_valid |-> is_reserved_bit_valid(ctRes.val),
                   safe_to_copy       |-> is_safe_to_copy(ctRes.val)]
    /\ UNCHANGED <<ctOp, ctStr, ctRaw, ctRes, ckVars, pngVars, cliVars>>

ChunkTypeNext == FromStr \/ TryFromRaw \/ Query

ChunkTypeSpec == ChunkTypeInit /\ [][ChunkTypeNext]_vars

----------------------------------------------------------------------------
(* Chunk: construct, serialize, tamper with the bytes, decode. *)

ChunkInit ==
    /\ ctIdle
    /\ pngIdle
    /\ cliIdle
    /\ ckOp = "input"
    /\ \E p \in ChunkInputs : ckType = p[1] /\ ckData = p[2]
    /\ made = <<>>
    /\ orig = <<>>
    /\ buf = <<>>
    /\ ckRes = None

New ==
    /\ ckOp = "input"
    /\ ckOp' = "new"
    /\ made' = <<Chunk_new(ckType, ckData)>>
    /\ UNCHANGED <<ckType, ckData, orig, buf, ckRes, ctVars, pngVars, cliVars>>

AsBytes ==
    /\ ckOp = "new"
    /\ ckOp' = "as_bytes"
    /\ orig' = Chunk_as_bytes(made[1])
    /\ buf' = Chunk_as_bytes(made[1])
    /\ UNCHANGED <<ckType, ckData, made, ckRes, ctVars, pngVars, cliVars>>

\* what every change to the serialized bytes leaves alone
TamperFrame == UNCHANGED <<ckType, ckData, made, orig, ckRes, ctVars, pngVars, cliVars>>

FlipBit ==
    /\ ckOp = "as_bytes"
    /\ ckOp' = "tampered"
    /\ \E i \in 1..Len(buf), k \in 0..7 :
          buf' = [buf EXCEPT ![i] = BitXor(@, Pow2(k))]
    /\ TamperFrame

SetLength ==
    /\ ckOp = "as_bytes"
    /\ ckOp' = "tampered"
    /\ \E v \in LengthFields : buf' = v \o SubSeq(buf, 5, Len(buf))
    /\ TamperFrame

SetCrc ==
    /\ ckOp = "as_bytes"
    /\ ckOp' = "tampered"
    /\ \E v \in CrcFields : buf' = SubSeq(buf, 1, Len(buf) - 4) \o v
    /\ TamperFrame

Truncate ==
    /\ ckOp = "as_bytes"
    /\ ckOp' = "tampered"
    /\ \E n \in 0..(Len(buf) - 1) : buf' = SubSeq(buf, 1, n)
    /\ TamperFrame

Extend ==
    /\ ckOp = "as_bytes"
    /\ ckOp' = "tampered"
    /\ \E b \in DataBytes : buf' = Append(buf, b)
    /\ TamperFrame

TryFrom ==
    /\ ckOp \in {"as_bytes", "tampered"}
    /\ ckOp' = "try_from"
    /\ ckRes' = Chunk_try_from(buf)
    /\ UNCHANGED <<ckType, ckData, made, orig, buf, ctVars, pngVars, cliVars>>

ChunkNext ==
    New \/ AsBytes \/ FlipBit \/ SetLength \/ SetCrc \/ Truncate \/ Extend \/ TryFrom

ChunkSpec == ChunkInit /\ [][ChunkNext]_vars

----------------------------------------------------------------------------
(* Png: decode a buffer, then append, remove, look up and serialize. *)

Pool ==
    {Chunk_new(T_IHDR, <<>>), Chunk_new(T_RuSt, <<84>>), Chunk_new(T_RuSt, <<>>),
     Chunk_new(T_ruSt, <<0>>), Chunk_new(T_IEND, <<>>)}

ArgTypes == {T_IHDR, T_RuSt, T_ruSt, T_IEND}

\* well-formed files, and files with a bad signature, a cut tail, a bad CRC
PngInputs ==
    LET good == {Png_as_bytes(cs) : cs \in SeqsUpTo(Pool, MaxChunks)}
        one  == Png_as_bytes(<<Chunk_new(T_IHDR, <<>>), Chunk_new(T_RuSt, <<84>>)>>)
    IN  good \cup {<<>>,
                   SubSeq(one, 2, Len(one)),
                   [one EXCEPT ![1] = 0],
                   SubSeq(one, 1, Len(one) - 1),
                   [one EXCEPT ![Len(one)] = BitXor(@, 1)],
                   [one EXCEPT ![12] = 1]}

Load ==
    /\ pngOp = "idle"
    /\ \E b \in PngInputs :
          LET r == Png_try_from(b)
          IN  /\ pngOp' = IF r.ok THEN "decoded" ELSE "decode_failed"
              /\ chunks' = r.val
              /\ pngErr' = r.err
    /\ UNCHANGED <<pngArg, given, prev, found, pngOut, ctVars, ckVars, cliVars>>

Live == pngOp \notin {"idle", "decode_failed"}

AppendChunk ==
    /\ Live
    /\ Len(chunks) < MaxChunks
    /\ \E c \in Pool :
          /\ given' = <<c>>
          /\ chunks' = append_chunk(chunks, c)
    /\ pngOp' = "append"
    /\ prev' = chunks
    /\ pngArg' = NoType
    /\ found' = <<>>
    /\ pngOut' = <<>>
    /\ pngErr' = ""
    /\ UNCHANGED <<ctVars, ckVars, cliVars>>

RemoveFirstChunk ==
    /\ Live
    /\ \E t \in ArgTypes :
          LET r == remove_first_chunk(chunks, t)
          IN  /\ pngArg' = t
              /\ pngOp' = IF r.ok THEN "remove" ELSE "remove_failed"
              /\ chunks' = IF r.ok THEN r.val ELSE chunks
              /\ pngErr' = r.err
    /\ prev' = chunks
    /\ given' = <<>>
    /\ found' = <<>>
    /\ pngOut' = <<>>
    /\ UNCHANGED <<ctVars, ckVars, cliVars>>

ChunksByType ==
    /\ Live
    /\ \E t \in ArgTypes :
          /\ pngArg' = t
          /\ found' = chunks_by_type(chunks, t)
    /\ pngOp' = "chunks_by_type"
    /\ prev' = chunks
    /\ given' = <<>>
    /\ pngOut' = <<>>
    /\ pngErr' = ""
    /\ UNCHANGED <<chunks, ctVars, ckVars, cliVars>>

PngAsBytes ==
    /\ Live
    /\ pngOp' = "as_bytes"
    /\ pngOut' = Png_as_bytes(chunks)
    /\ prev' = chunks
    /\ pngArg' = NoType
    /\ given' = <<>>
    /\ found' = <<>>
    /\ pngErr' = ""
    /\ UNCHANGED <<chunks, ctVars, ckVars, cliVars>>

Next == Load \/ AppendChunk \/ RemoveFirstChunk \/ ChunksByType \/ PngAsBytes

Spec == Init /\ [][Next]_vars

----------------------------------------------------------------------------
(* Properties of the chunk codec, under ChunkSpec. *)

TheChunk == made[1]

\* C1: decoding the bytes as_bytes() gives for Chunk::new(T, D) succeeds and
\* yields a chunk with the length, type, data and CRC of Chunk::new(T, D).
C1_RoundTrip ==
    (ckOp = "try_from" /\ buf = orig) =>
        /\ ckRes.ok
        /\ length(ckRes.val) = length(TheChunk)
        /\ chunk_type(ckRes.val) = chunk_type(TheChunk)
        /\ data(ckRes.val) = data(TheChunk)
        /\ crc(ckRes.val) = crc(TheChunk)
        /\ bytes(chunk_type(ckRes.val)) = bytes(ckType)
        /\ data(ckRes.val) = ckData

C1_Witness ==
    /\ ckOp = "try_from"
    /\ buf = orig
    /\ ckType = T_raw
    /\ Len(ckData) = 2
    /\ ckRes.ok

OneBitApart(a, b) == \E k \in 0..7 : b = BitXor(a, Pow2(k))

\* buf is orig with one bit of the type or data portion flipped
FlippedInTypeOrData ==
    /\ Len(buf) = Len(orig)
    /\ \E i \in 5..(Len(orig) - 4) :
          /\ OneBitApart(orig[i], buf[i])
          /\ \A j \in 1..Len(orig) : j # i => buf[j] = orig[j]

\* C2: with one bit of the type or data portion of a valid chunk's bytes
\* flipped, and the length field and stored CRC as they were, decoding fails
\* with the CRC-mismatch error.
C2_CrcSensitivity ==
    (ckOp = "try_from" /\ FlippedInTypeOrData) =>
        ~ ckRes.ok /\ ckRes.err = ErrCrc

C2_Witness ==
    /\ ckOp = "try_from"
    /\ FlippedInTypeOrData
    /\ buf[5] # orig[5]
    /\ ckData = SecretMessage
    /\ ckRes.err = ErrCrc

\* buf is orig with another declared length, the rest unchanged
LengthReplaced ==
    /\ Len(buf) = Len(orig)
    /\ SubSeq(buf, 1, 4) # SubSeq(orig, 1, 4)
    /\ SubSeq(buf, 5, Len(buf)) = SubSeq(orig, 5, Len(orig))

\* C3: with the declared length of a valid chunk's bytes replaced by any other
\* value, type, data and CRC unchanged, decoding fails with the
\* length-mismatch error.
C3_LengthEnforcement ==
    (ckOp = "try_from" /\ LengthReplaced) =>
        ~ ckRes.ok /\ ckRes.err = ErrLength

C3_Witness ==
    /\ ckOp = "try_from"
    /\ LengthReplaced
    /\ SubSeq(buf, 1, 4) = <<1, 0, 0, Len(ckData)>>
    /\ ckRes.err = ErrLength

\* length() is the byte count of data(), crc() the CRC-32 of type then data
WellFormed(c) ==
    /\ length(c)[1] = 0
    /\ length(c)[2] = Len(data(c))
    /\ crc(c) = checksum(bytes(chunk_type(c)) \o data(c))

\* C4: every chunk made by Chunk::new or by a successful decode has
\* length() = data().len() and crc() = CRC-32 of type and data; "RuSt" with
\* the 42-byte message has length 42 and crc 2882656334 = 43985 * 65536 + 55374.
C4_ChunkInvariant ==
    /\ made # <<>> => WellFormed(TheChunk)
    /\ ckRes.ok => WellFormed(ckRes.val)
    /\ (made # <<>> /\ ckType = T_RuSt /\ ckData = SecretMessage) =>
          /\ length(TheChunk) = <<0, 42>>
          /\ crc(TheChunk) = <<43985, 55374>>
          /\ TheChunk.crc = <<171, 209, 216, 78>>

C4_Witness ==
    /\ ckOp = "try_from"
    /\ ckRes.ok
    /\ ckType = T_RuSt
    /\ ckData = SecretMessage
    /\ crc(ckRes.val) = <<43985, 55374>>

\* C10: decoding succeeds exactly when there are at least 12 bytes, the
\* big-endian length field equals the byte count minus 12 and the last four
\* bytes are the big-endian CRC-32 of everything between; the type bytes play
\* no part, and the decoded type is bytes 4..8 as they are.
C10_DecodeDecidedBySizeLengthCrc ==
    ckOp = "try_from" =>
        /\ ckRes.ok <=>
              /\ Len(buf) >= 12
              /\ buf[1] = 0 /\ buf[2] = 0
              /\ buf[3] * 256 + buf[4] = Len(buf) - 12
              /\ SubSeq(buf, Len(buf) - 3, Len(buf))
                    = to_be_bytes(checksum(SubSeq(buf, 5, Len(buf) - 4)))
        /\ ckRes.ok => bytes(chunk_type(ckRes.val)) = SubSeq(buf, 5, 8)

C10_Witness ==
    /\ ckOp = "try_from"
    /\ ckRes.ok
    /\ SubSeq(buf, 5, 8) = <<0, 255, 49, 123>>
    /\ ~ is_reserved_bit_valid(chunk_type(ckRes.val))
    /\ ~ ChunkType_from_str(SubSeq(buf, 5, 8)).ok

----------------------------------------------------------------------------
(* Properties of ChunkType, under ChunkTypeSpec. *)

CaseBitClear(b) == (b \div 32) % 2 = 0

\* C8: each property query is a test of the case bit 0x20 of its byte, for
\* every ChunkType: critical, public, reserved-bit-valid iff the bit of byte
\* 0, 1, 2 is clear, safe-to-copy iff the bit of byte 3 is set.
C8_SingleBitQueries ==
    ctFlags.asked =>
        /\ ctFlags.critical <=> CaseBitClear(ctRes.val.bytes[1])
        /\ ctFlags.public <=> CaseBitClear(ctRes.val.bytes[2])
        /\ ctFlags.reserved_bit_valid <=> CaseBitClear(ctRes.val.bytes[3])
        /\ ctFlags.safe_to_copy <=> ~ CaseBitClear(ctRes.val.bytes[4])

Letters == (65..90) \cup (97..122)

Rust == <<82, 117, 115, 116>>

\* C9: from_str(s) succeeds iff s is 4 bytes long and all of them ASCII
\* letters; then bytes() is s, as for the type built from those raw bytes;
\* otherwise it fails with an invalid-chunk-type error.  "Rust" is accepted,
\* and is_valid() is false for it.
C9_FromStr ==
    ctOp = "from_str" =>
        /\ ctRes.ok <=> (Len(ctStr) = 4 /\ \A i \in 1..Len(ctStr) : ctStr[i] \in Letters)
        /\ ctRes.ok =>
              /\ bytes(ctRes.val) = ctStr
              /\ ctRes.val = ChunkType_try_from(ctStr).val
        /\ ~ ctRes.ok => ctRes.err \in {ErrTypeLength, ErrTypeAlpha}
        /\ ctStr = Rust => ctRes.ok
        /\ (ctStr = Rust /\ ctFlags.asked) => ~ ctFlags.valid

C9_Witness ==
    /\ ctOp = "from_str"
    /\ ctStr = Rust
    /\ ctRes.ok
    /\ ctFlags.asked
    /\ ~ ctFlags.valid

----------------------------------------------------------------------------
(* Properties of the container, under Spec. *)

TypeIs(c, t) == bytes(chunk_type(c)) = bytes(t)

\* C5: remove_first_chunk(T) removes the chunk at the smallest index whose
\* type is T and leaves the others as they were and in order; with no chunk
\* of type T it fails with ChunkNotFound and the sequence is unchanged.
C5_RemoveFirst ==
    /\ pngOp = "remove" =>
          \E i \in 1..Len(prev) :
              /\ TypeIs(prev[i], pngArg)
              /\ \A j \in 1..(i - 1) : ~ TypeIs(prev[j], pngArg)
              /\ chunks = [k \in 1..(Len(prev) - 1) |->
                               IF k < i THEN prev[k] ELSE prev[k + 1]]
    /\ pngOp = "remove_failed" =>
          /\ \A i \in 1..Len(prev) : ~ TypeIs(prev[i], pngArg)
          /\ pngErr = ErrNotFound
          /\ chunks = prev

C5_Witness ==
    /\ pngOp = "remove"
    /\ Len(prev) = 3
    /\ ~ TypeIs(prev[1], pngArg)
    /\ TypeIs(prev[2], pngArg)
    /\ TypeIs(prev[3], pngArg)
    /\ chunks = <<prev[1], prev[3]>>

RECURSIVE Offset(_, _)
\* where chunk i starts in the serialized container, counted from 0
Offset(cs, i) ==
    IF i = 1 THEN 8 ELSE Offset(cs, i - 1) + 12 + Len(data(cs[i - 1]))

\* C6: a container that was decoded and then had chunks appended and removed
\* serializes to the signature followed by its chunks' bytes in sequence
\* order, an appended chunk last, and those bytes decode to the same sequence.
C6_StructurePreserved ==
    Live =>
        LET b == Png_as_bytes(chunks)
        IN  /\ SubSeq(b, 1, 8) = <<137, 80, 78, 71, 13, 10, 26, 10>>
            /\ Len(b) = Offset(chunks, Len(chunks) + 1)
            /\ \A i \in 1..Len(chunks) :
                  SubSeq(b, Offset(chunks, i) + 1, Offset(chunks, i + 1))
                      = Chunk_as_bytes(chunks[i])
            /\ Png_try_from(b) = Ok(chunks)
            /\ pngOp = "append" => chunks = prev \o given
            /\ pngOp = "as_bytes" => pngOut = b

C6_Witness ==
    /\ pngOp = "append"
    /\ Len(prev) = 2
    /\ TypeIs(prev[2], T_IEND)
    /\ chunks[3] = given[1]
    /\ Png_try_from(Png_as_bytes(chunks)) = Ok(chunks)

\* C7: chunks_by_type(T) returns the chunks whose type is T byte for byte,
\* each once and in order, leaves the container unchanged, and returns an
\* empty result, not an error, when none matches.
C7_ChunksByType ==
    pngOp = "chunks_by_type" =>
        /\ found = SelectSeq(prev, LAMBDA c : TypeIs(c, pngArg))
        /\ chunks = prev
        /\ pngErr = ""

C7_Witness ==
    /\ pngOp = "chunks_by_type"
    /\ Len(chunks) = 3
    /\ found = <<chunks[1], chunks[3]>>
    /\ chunks[1] # chunks[3]

----------------------------------------------------------------------------
(* commands.rs: the encode and remove commands, one step per call that can  *)
(* fail or that touches a file.                                             *)

ErrRead  == "fs::read failed"
ErrFetch == "ureq::get failed"
ErrWrite == "fs::write failed"

InFile(p) == [kind |-> "File", path |-> p]
InUrl     == [kind |-> "Url", path |-> ""]

NoOutput    == [some |-> FALSE, path |-> ""]
SomePath(p) == [some |-> TRUE, path |-> p]

\* parse_input: the bytes of the file at the path, or the body of the response
parse_input(input, files, response) ==
    IF input.kind = "File"
    THEN IF files[input.path].exists THEN Ok(files[input.path].bytes) ELSE Err(ErrRead)
    ELSE IF response.exists THEN Ok(response.bytes) ELSE Err(ErrFetch)

\* variant: the error of a call dropped, the command going on
try_ignored(r, next) == next

\* the ? operator: go on when the call succeeded, return its error otherwise
Try(r, next) == IF r.ok THEN next ELSE "failed"

Stdout == "stdout"

\* where each command sends png.as_bytes(): match output / match input
write_target(a) ==
    IF a.output.some THEN a.output.path
    ELSE IF a.cmd = "remove" /\ a.input.kind = "File" THEN a.input.path
    ELSE Stdout

\* file contents: well-formed files, a bad CRC, a bad signature, no byte
CliFiles ==
    LET ihdr == Chunk_new(T_IHDR, <<>>)
        rust == Chunk_new(T_RuSt, <<84>>)
        iend == Chunk_new(T_IEND, <<>>)
        full == Png_as_bytes(<<ihdr, rust, iend>>)
    IN  {full,
         Png_as_bytes(<<ihdr, iend>>),
         Png_as_bytes(<<rust, Chunk_new(T_RuSt, <<>>)>>),
         [full EXCEPT ![Len(full)] = BitXor(@, 1)],
         [full EXCEPT ![1] = 0],
         <<>>}

Sources == {NoFile} \cup {File(b) : b \in CliFiles}

CliArgs ==
    {[cmd |-> "remove", input |-> i, output |-> o, chunk_type |-> t, message |-> <<>>] :
        i \in {InFile(P_in), InUrl},
        o \in {NoOutput, SomePath(P_out), SomePath(P_in)},
        t \in {T_RuSt, T_IHDR, T_ruSt}}
    \cup
    {[cmd |-> "encode", input |-> i, output |-> o, chunk_type |-> T_RuSt, message |-> m] :
        i \in {InFile(P_in), InUrl},
        o \in {NoOutput, SomePath(P_out), SomePath(P_in)},
        m \in {<<>>, <<84>>}}

CliInit ==
    /\ ctIdle
    /\ ckIdle
    /\ pngIdle
    /\ cliArgs \in CliArgs
    /\ cliPc = "start"
    /\ \E src \in Sources, other \in {NoFile, File(<<1>>)} :
          IF cliArgs.input.kind = "File"
          THEN /\ fs = [p \in Paths |-> IF p = P_in THEN src ELSE other]
               /\ net = NoFile
          ELSE /\ fs \in {[p \in Paths |-> NoFile], [p \in Paths |-> other]}
               /\ net = src
    /\ fs0 = fs
    /\ parsed_input = <<>>
    /\ png = <<>>
    /\ writes = 0
    /\ printed = FALSE
    /\ failedAt = ""

\* let parsed_input = parse_input(input)?;
CliParseInput ==
    /\ cliPc = "start"
    /\ LET r == parse_input(cliArgs.input, fs, net)
       IN  /\ parsed_input' = r.val
           /\ cliPc' = Try(r, "parsed")
           /\ failedAt' = IF r.ok THEN "" ELSE "parse_input"
    /\ UNCHANGED <<cliArgs, fs, fs0, net, png, writes, printed, ctVars, ckVars, pngVars>>

\* let mut png = Png::try_from(parsed_input.as_slice())?;
CliDecode ==
    /\ cliPc = "parsed"
    /\ LET r == Png_try_from(parsed_input)
       IN  /\ png' = r.val
           /\ cliPc' = Try(r, "decoded")
           /\ failedAt' = IF r.ok THEN "" ELSE "Png::try_from"
    /\ UNCHANGED <<cliArgs, fs, fs0, net, parsed_input, writes, printed,
                   ctVars, ckVars, pngVars>>

\* encode: png.append_chunk(Chunk::new(chunk_type.clone(), data));
CliAppend ==
    /\ cliPc = "decoded"
    /\ cliArgs.cmd = "encode"
    /\ png' = append_chunk(png, Chunk_new(cliArgs.chunk_type, cliArgs.message))
    /\ cliPc' = "changed"
    /\ UNCHANGED <<cliArgs, fs, fs0, net, parsed_input, writes, printed, failedAt,
                   ctVars, ckVars, pngVars>>

\* remove: png.remove_first_chunk(chunk_type)?;
CliRemove ==
    /\ cliPc = "decoded"
    /\ cliArgs.cmd = "remove"
    /\ LET r == remove_first_chunk(png, cliArgs.chunk_type)
       IN  /\ png' = IF r.ok THEN r.val ELSE png
           /\ cliPc' = Try(r, "changed")
           /\ failedAt' = IF r.ok THEN "" ELSE "remove_first_chunk"
    /\ UNCHANGED <<cliArgs, fs, fs0, net, parsed_input, writes, printed,
                   ctVars, ckVars, pngVars>>

\* Ok(fs::write(path, png.as_bytes())?): the file gets the bytes, or the call
\* fails and leaves the file as it was or created and cut short
CliWrite ==
    /\ cliPc = "changed"
    /\ write_target(cliArgs) # Stdout
    /\ writes' = writes + 1
    /\ \/ /\ fs' = [fs EXCEPT ![write_target(cliArgs)] = File(Png_as_bytes(png))]
          /\ cliPc' = "done"
          /\ UNCHANGED failedAt
       \/ /\ \/ UNCHANGED fs
             \/ fs' = [fs EXCEPT ![write_target(cliArgs)] = File(<<>>)]
          /\ cliPc' = "failed"
          /\ failedAt' = "fs::write"
    /\ UNCHANGED <<cliArgs, fs0, net, parsed_input, png, printed, ctVars, ckVars, pngVars>>

\* println!("{}", png); Ok(())
CliPrint ==
    /\ cliPc = "changed"
    /\ write_target(cliArgs) = Stdout
    /\ printed' = TRUE
    /\ cliPc' = "done"
    /\ UNCHANGED <<cliArgs, fs, fs0, net, parsed_input, png, writes, failedAt,
                   ctVars, ckVars, pngVars>>

CliNext == CliParseInput \/ CliDecode \/ CliAppend \/ CliRemove \/ CliWrite \/ CliPrint

CliSpec == CliInit /\ [][CliNext]_vars

----------------------------------------------------------------------------
(* Properties of the commands, under CliSpec. *)

\* what the command reads, as it was when the command started
Source == IF cliArgs.input.kind = "File" THEN fs0[cliArgs.input.path] ELSE net

Acquired == Source.exists

Decodes == Acquired /\ Png_try_from(Source.bytes).ok

HasChunk ==
    /\ Decodes
    /\ \E i \in 1..Len(Png_try_from(Source.bytes).val) :
          bytes(chunk_type(Png_try_from(Source.bytes).val[i])) = bytes(cliArgs.chunk_type)

AllSucceeded == Decodes /\ (cliArgs.cmd = "remove" => HasChunk)

InPlaceRemove ==
    /\ cliArgs.cmd = "remove"
    /\ cliArgs.input.kind = "File"
    /\ ~ cliArgs.output.some

\* C11: remove and encode write a file at most once, and only after input
\* acquisition, Png decode and (for remove) remove_first_chunk have succeeded;
\* when one of them fails the command returns the error and no file is
\* written, so an in-place remove that finds no chunk of the type or reads a
\* corrupt PNG leaves the input file's bytes as they were.
C11_WriteOrdering ==
    /\ writes <= 1
    /\ writes = 1 => AllSucceeded /\ cliPc \in {"done", "failed"}
    /\ fs # fs0 => writes = 1
    /\ failedAt \in {"parse_input", "Png::try_from", "remove_first_chunk"} =>
          cliPc = "failed" /\ writes = 0 /\ fs = fs0
    /\ (~ AllSucceeded /\ cliPc \notin {"start", "parsed", "decoded"}) =>
          cliPc = "failed" /\ writes = 0 /\ fs = fs0
    /\ (InPlaceRemove /\ ~ AllSucceeded) => fs[P_in] = fs0[P_in]

C11_Witness ==
    /\ InPlaceRemove
    /\ cliPc = "failed"
    /\ failedAt = "remove_first_chunk"
    /\ Decodes
    /\ fs0[P_in].exists
    /\ fs[P_in] = fs0[P_in]
    /\ writes = 0

====
